---------------------------- MODULE Spec2Model ----------------------------
(***************************************************************************)
(* Model of push_digest.py: the news pipeline of useful_push.              *)
(*                                                                         *)
(*   Spec      build_push_payloads -> enrich_news -> translate_and_        *)
(*             summarize -> call_openrouter, with the monotonic clock and  *)
(*             the process-wide rate-limiter state.                        *)
(*   SpecRank  fetch_feed_entries: the per-feed fetch loop, then the       *)
(*             sort / de-duplicate / cap loop.                             *)
(*                                                                         *)
(* Text is a sequence of Unicode code points.  Python's None for an        *)
(* Optional[str] is the value None below, which is no string of code       *)
(* points.  Time is in whole seconds; random.uniform(0, 1) is drawn from   *)
(* {0, 1}.  The code reads the monotonic clock only to subtract an earlier *)
(* reading from it, so the model keeps the differences: each is a clock    *)
(* that every sleep and every request advances, an assignment of           *)
(* monotonic() resets to 0, and that stops counting at ClockCap.           *)
(***************************************************************************)
EXTENDS Integers, Sequences, FiniteSets, TLC

VARIABLES
    \* ---- configuration read from the environment at start-up
    OPENROUTER_FORCE,       \* OPENROUTER_ALWAYS in {"1","true","yes","on"}
    api_key,                \* os.getenv("OPENROUTER_KEY") is a non-empty string
    \* ---- process state of the pipeline
    since_last_call,        \* monotonic() - _last_openrouter_call
    last_written,           \* whether _last_openrouter_call was ever assigned
    pc,                     \* where the single thread of main() stands
    cat,                    \* index into NEWS_CATEGORY_META of the category at hand
    entries,                \* enrich_news: the entries not yet visited
    entry,                  \* the entry translate_and_summarize works on
    enriched,               \* enrich_news: the list being returned
    attempt,                \* call_openrouter: the loop variable
    response,               \* what call_openrouter returned to translate_and_summarize
    payloads,               \* build_push_payloads: categories whose payload was appended
    \* ---- observers (what a spy on the HTTP client and on sleep() would record)
    calls,                  \* number of call_openrouter invocations so far
    requests,               \* post calls made by the current/last invocation
    backoffs,               \* backoff sleeps made by the current/last invocation
    sleeps,                 \* sleep() calls made by the current/last invocation
    since_end,              \* monotonic() - (end of the previous request attempt);
                            \* NoTime when there was none
    path,                   \* the branch enrich_news took for the latest entry
    input_len,              \* enrich_news: length of the list it was given
    exc,                    \* the function an uncaught exception was raised in ("" : none)
    \* ---- state of fetch_feed_entries (SpecRank)
    rpc,                    \* where fetch_feed_entries stands
    feed_idx,               \* index of the feed URL at hand
    fetched,                \* per feed URL: number of GET requests issued
    failed,                 \* the feed URLs whose GET or parse raised
    parsed,                 \* number of items of parsed.entries visited so far
    raw,                    \* the list "entries" built by the fetch loop
    ordered,                \* sorted(entries, ..., reverse=True), not yet visited part
    seen,                   \* the set "seen"
    deduped,                \* the list "deduped"
    max_items,              \* the parameter max_items
    \* ---- local_summary and the prompt body, called on their own (SpecText)
    arg_text,               \* the text passed in: a description
    arg_title,              \* local_summary's title argument, None when left out
    arg_max_chars,          \* local_summary's max_chars argument
    MAX_PROMPT_CHARS,       \* int(os.getenv("OPENROUTER_MAX_CHARS", "6000"))
    ret_summary,            \* what local_summary returned, None before the call
    prompt_body,            \* "body" of translate_and_summarize, None before it is built
    \* ---- the delivery loop of main (SpecMain)
    SERVERCHAN_KEY,         \* os.getenv("SERVERCHAN_KEY") is a non-empty string
    main_payloads,          \* what build_push_payloads returned: (title, body is blank)
    main_idx,               \* number of payloads the loop has visited
    send_calls,             \* observer: the titles send_serverchan was called with
    send_failed,            \* observer: the positions whose send_serverchan raised
    mpc                     \* where main stands

pipeVars == <<OPENROUTER_FORCE, api_key, since_last_call, last_written, pc, cat,
              entries, entry, enriched, attempt, response, payloads, calls,
              requests, backoffs, sleeps, since_end, path,
              input_len, exc>>
rankVars == <<rpc, feed_idx, fetched, failed, parsed, raw, ordered, seen, deduped, max_items>>
textVars == <<arg_text, arg_title, arg_max_chars, MAX_PROMPT_CHARS, ret_summary, prompt_body>>
mainVars == <<SERVERCHAN_KEY, main_payloads, main_idx, send_calls, send_failed, mpc>>
vars == <<pipeVars, rankVars, textVars, mainVars>>

-----------------------------------------------------------------------------
(* Bounds of the model *)

\* the reading at which a clock of the model stops counting; it is above
\* OPENROUTER_MIN_INTERVAL, the only value a reading is compared with
ClockCap == 7
\* enrich_news: longest list of entries given to one call
MaxEntries == 1
\* fetch_feed_entries: number of feed URLs, most items parsed over all of
\* them, largest max_items tried, latest timestamp, and the cutoff
\* now - lookback_hours on that scale
NumFeeds == 2
MaxRaw == 3
MaxCap == 3
MaxStamp == 3
Cutoff == 2

(* Program constants *)

OPENROUTER_MAX_CALLS_PER_MIN == 12
OPENROUTER_MIN_INTERVAL == 60 \div OPENROUTER_MAX_CALLS_PER_MIN
OPENROUTER_MAX_RETRIES == 5
OPENROUTER_BACKOFF_BASE == 3
\* local_summary's default max_chars
SUMMARY_MAX_CHARS == 200
\* CJK_RE = [一-鿿]
CJK_FIRST == 19968
CJK_LAST == 40959

None == << -1 >>
NoTime == 0 - 1

-----------------------------------------------------------------------------
(* Text helpers *)

SPACE == 32
LT == 60
GT == 62

IsSpace(c) == c \in {9, 10, 13, SPACE}

RECURSIVE LStrip(_)
LStrip(s) == IF s = <<>> THEN <<>>
             ELSE IF IsSpace(Head(s)) THEN LStrip(Tail(s)) ELSE s

RECURSIVE RStrip(_)
RStrip(s) == IF s = <<>> THEN <<>>
             ELSE IF IsSpace(s[Len(s)]) THEN RStrip(SubSeq(s, 1, Len(s) - 1)) ELSE s

\* str.strip()
Strip(s) == RStrip(LStrip(s))

\* re.sub(r"\s+", " ", s): every run of whitespace becomes one space
RECURSIVE Collapse(_)
Collapse(s) ==
    IF s = <<>> THEN <<>>
    ELSE IF IsSpace(Head(s))
         THEN <<SPACE>> \o Collapse(LStrip(s))
         ELSE <<Head(s)>> \o Collapse(Tail(s))

trim_whitespace(text) == Strip(Collapse(IF text = None THEN <<>> ELSE text))

\* BeautifulSoup(text).get_text(separator=" ", strip=True): the markup between
\* "<" and ">" is dropped and the text nodes are joined by the separator
RECURSIVE SkipTag(_)
SkipTag(s) == IF s = <<>> THEN <<>>
              ELSE IF Head(s) = GT THEN Tail(s) ELSE SkipTag(Tail(s))

RECURSIVE get_text(_)
get_text(s) ==
    IF s = <<>> THEN <<>>
    ELSE IF Head(s) = LT
         THEN <<SPACE>> \o get_text(SkipTag(Tail(s)))
         ELSE <<Head(s)>> \o get_text(Tail(s))

strip_html(text) ==
    IF text = None \/ text = <<>> THEN <<>> ELSE trim_whitespace(get_text(text))

\* the character class written with its upper end left out
contains_cjk_short(text) ==
    \E i \in 1..Len(text) : text[i] >= CJK_FIRST /\ text[i] < CJK_LAST

contains_cjk(text) ==
    \E i \in 1..Len(text) : text[i] >= CJK_FIRST /\ text[i] <= CJK_LAST

\* Python's slice s[:n]: the first n characters, all of s when it is shorter,
\* and for a negative n all but the last -n characters
Take(s, n) ==
    IF n >= 0
    THEN SubSeq(s, 1, IF n < Len(s) THEN n ELSE Len(s))
    ELSE SubSeq(s, 1, IF Len(s) + n > 0 THEN Len(s) + n ELSE 0)

\* the entries of a list, as a set
Range(l) == { l[i] : i \in 1..Len(l) }

\* Python's "a or b" on strings
OrElse(a, b) == IF a = None \/ a = <<>> THEN b ELSE a

-----------------------------------------------------------------------------
(* local_summary *)

LABEL == <<35201, 28857, 65306>>              \* "要点："
NO_SUMMARY == <<26242, 26080, 25688, 35201, 12290>>   \* "暂无摘要。"
DASH == <<8212, 8212>>                        \* "——"
ELLIPSIS == <<8230>>                          \* "…"
TERMINATORS == {12290, 65281, 65311, 33, 63, 46}     \* 。！？!?.

\* re.search(r"[。！？!?.]", clean).end(), or 0 when there is no match
SentenceEnd(clean) ==
    IF \E i \in 1..Len(clean) : clean[i] \in TERMINATORS
    THEN CHOOSE i \in 1..Len(clean) :
            /\ clean[i] \in TERMINATORS
            /\ \A j \in 1..(i - 1) : clean[j] \notin TERMINATORS
    ELSE 0

local_summary(text, title, max_chars) ==
    LET clean == Strip(IF text = None THEN <<>> ELSE text)
        hasTitle == title # None /\ title # <<>>
        e == SentenceEnd(clean)
        first == IF e > 0 THEN SubSeq(clean, 1, e) ELSE clean
        candidate == IF Len(first) > max_chars
                     THEN RStrip(Take(first, max_chars - 1)) \o ELLIPSIS
                     ELSE first
    IN  IF clean = <<>>
        THEN IF hasTitle THEN LABEL \o Strip(title) ELSE NO_SUMMARY
        ELSE IF hasTitle /\ candidate = clean
             THEN LABEL \o Strip(title) \o DASH \o candidate
             ELSE LABEL \o candidate

-----------------------------------------------------------------------------
(* translate_and_summarize: the description as it is put into the prompt *)

NO_DESCRIPTION == <<65288, 26080, 25688, 35201, 65289>>   \* "（无摘要）"
PROMPT_ELLIPSIS == <<8230, 8230>>                          \* "……"

\* the cut is made whatever the sign of the limit
PromptBody_unguarded(description, limit) ==
    LET body == OrElse(description, NO_DESCRIPTION)
    IN  IF Len(body) > limit
        THEN Take(body, limit) \o PROMPT_ELLIPSIS
        ELSE body

\* body = entry.description or "（无摘要）", cut to the limit when the limit
\* is positive and the body is longer
PromptBody(description, limit) ==
    LET body == OrElse(description, NO_DESCRIPTION)
    IN  IF limit > 0 /\ Len(body) > limit
        THEN Take(body, limit) \o PROMPT_ELLIPSIS
        ELSE body

-----------------------------------------------------------------------------
(* Data of the pipeline *)

\* NEWS_CATEGORY_META, in insertion order
NEWS_CATEGORY_META == <<"ai", "robotics", "finance", "tech">>

\* Titles and descriptions as fetch_feed_entries leaves them (trimmed):
\* Latin, kana (outside the CJK ideograph range), and the two ends of the range
Titles == { <<>>, <<12354>>, <<CJK_FIRST>> }
Descriptions == { <<>>, <<98, SPACE, 99>>, <<CJK_LAST>> }

\* NewsEntry; link, published_at and source are not read by the enrichment
NewsEntry(t, d) ==
    [title |-> t, description |-> d, translation |-> None, summary |-> None,
     kept_original |-> TRUE]

EntryUniverse == { NewsEntry(t, d) : t \in Titles, d \in Descriptions }

NoneEntry == NewsEntry(None, None)

\* lists of at most n entries
RECURSIVE EntryLists(_)
EntryLists(n) ==
    IF n = 0 THEN { <<>> }
    ELSE EntryLists(n - 1) \cup
         { Append(l, e) : l \in { x \in EntryLists(n - 1) : Len(x) = n - 1 },
                          e \in EntryUniverse }

\* What data["choices"][0]["message"]["content"] can hold, by what
\* extract_json_from_text and translate_and_summarize make of it:
\*   object       a JSON object whose translation and summary are strings
\*   unparseable  empty text, or text that holds no JSON (data is None)
\*   non_object   JSON that is truthy and not an object, e.g. [1]
\*   bad_field    a JSON object whose translation is a number
Content(k, t, s) == [kind |-> k, translation |-> t, summary |-> s]

Translations == { <<>>, <<LT, 98, GT>>, <<SPACE, 20013, LT, 98, GT>> }
Summaries == { <<>>, <<25688>> }

Contents ==
    { Content("object", t, s) : t \in Translations, s \in Summaries }
    \cup { Content("unparseable", <<>>, <<>>),
           Content("non_object", <<>>, <<>>),
           Content("bad_field", <<>>, <<>>) }

\* call_openrouter returning None
Unavailable == Content("None", <<>>, <<>>)

SUMMARY_PLACEHOLDER == <<26080, 27861>>       \* "无法生成摘要，已保留原文。" (abridged)

\* how long one REQUEST_SESSION.post takes, and random.uniform(0, 1)
PostSeconds == {0, 1}
Jitter == {0, 1}
\* how long fetching the feeds of one category takes
FetchSeconds == {0, 6}

RECURSIVE Pow2(_)
Pow2(n) == IF n = 0 THEN 1 ELSE 2 * Pow2(n - 1)

-----------------------------------------------------------------------------
(* should_use_openrouter *)

\* the final "not" forgotten
should_use_openrouter_inverted(e) ==
    IF OPENROUTER_FORCE THEN TRUE
    ELSE LET text == Strip(e.title \o <<SPACE>> \o e.description)
         IN  IF text = <<>> THEN TRUE ELSE contains_cjk(text)

should_use_openrouter(e) ==
    IF OPENROUTER_FORCE THEN TRUE
    ELSE LET text == Strip(e.title \o <<SPACE>> \o e.description)
         IN  IF text = <<>> THEN TRUE ELSE ~contains_cjk(text)

-----------------------------------------------------------------------------
(* The clocks *)

\* a reading t of a clock of the model
Sat(t) == IF t > ClockCap THEN ClockCap ELSE t

\* since_end after t more seconds
EndAfter(t) == IF since_end = NoTime THEN NoTime ELSE Sat(since_end + t)

-----------------------------------------------------------------------------
(* build_push_payloads: the loop over NEWS_CATEGORY_META *)

\* local_summary and the prompt body are not looked at on their own
TextIdle ==
    /\ arg_text = <<>> /\ arg_title = None /\ arg_max_chars = 0
    /\ MAX_PROMPT_CHARS = 0 /\ ret_summary = None /\ prompt_body = None

\* main is not looked at on its own
MainIdle ==
    /\ SERVERCHAN_KEY = FALSE /\ main_payloads = <<>> /\ main_idx = 0
    /\ send_calls = <<>> /\ send_failed = {} /\ mpc = "idle"

RankInit ==
    /\ rpc = "idle" /\ feed_idx = 0 /\ fetched = <<>> /\ failed = {}
    /\ parsed = 0 /\ raw = <<>>
    /\ ordered = <<>> /\ seen = {} /\ deduped = <<>> /\ max_items = 0

\* _last_openrouter_call = 0.0, and monotonic() is whatever the host's clock reads
Init ==
    /\ OPENROUTER_FORCE \in BOOLEAN
    /\ api_key \in BOOLEAN
    /\ since_last_call \in 0..ClockCap
    /\ last_written = FALSE
    /\ pc = "category"
    /\ cat = 1
    /\ entries = <<>> /\ entry = NoneEntry /\ enriched = <<>>
    /\ attempt = 0 /\ response = Unavailable /\ payloads = <<>>
    /\ calls = 0 /\ requests = 0 /\ backoffs = 0 /\ sleeps = 0
    /\ since_end = NoTime /\ path = "none"
    /\ input_len = 0 /\ exc = ""
    /\ RankInit
    /\ TextIdle
    /\ MainIdle

config == <<OPENROUTER_FORCE, api_key>>
limiter == <<since_last_call, last_written, since_end>>
callLocals == <<attempt, response, requests, backoffs, sleeps>>

\* a category with no configured feed is skipped: no payload is appended
SkipCategory ==
    /\ pc = "category" /\ cat <= Len(NEWS_CATEGORY_META)
    /\ cat' = cat + 1
    /\ UNCHANGED <<config, limiter, callLocals, pc, entries, entry, enriched, path,
                   payloads, calls, input_len, exc, rankVars, textVars, mainVars>>

\* fetch_feed_entries returns a list, which enrich_news starts to walk
StartCategory ==
    /\ pc = "category" /\ cat <= Len(NEWS_CATEGORY_META)
    /\ \E l \in EntryLists(MaxEntries), d \in FetchSeconds :
          /\ since_last_call' = Sat(since_last_call + d)
          /\ since_end' = EndAfter(d)
          /\ entries' = l
          /\ input_len' = Len(l)
    /\ enriched' = <<>>
    /\ pc' = "enrich"
    /\ UNCHANGED <<config, last_written, callLocals, cat, entry, path,
                   payloads, calls, exc, rankVars, textVars, mainVars>>

\* the news loop is over; weather, server health and calendar follow
FinishNews ==
    /\ pc = "category" /\ cat > Len(NEWS_CATEGORY_META)
    /\ pc' = "built"
    /\ UNCHANGED <<config, limiter, callLocals, cat, entries, entry, enriched, path,
                   payloads, calls, input_len, exc, rankVars, textVars, mainVars>>

-----------------------------------------------------------------------------
(* enrich_news *)

\* the else branch: the local path
EnrichLocal ==
    /\ pc = "enrich" /\ entries # <<>>
    /\ ~should_use_openrouter(Head(entries))
    /\ LET e == Head(entries)
           fallback_text == OrElse(e.description, e.title)
       IN  enriched' = Append(enriched,
               [e EXCEPT !.translation = fallback_text,
                         !.summary = local_summary(fallback_text, e.title, SUMMARY_MAX_CHARS),
                         !.kept_original = TRUE])
    /\ entries' = Tail(entries)
    /\ entry' = Head(entries)
    /\ path' = "local"
    /\ response' = Unavailable
    /\ UNCHANGED <<config, limiter, attempt, requests, backoffs, sleeps, pc, cat,
                   payloads, calls, input_len, exc, rankVars, textVars, mainVars>>

\* the if branch: translate_and_summarize builds the prompt and enters call_openrouter
EnrichExternal ==
    /\ pc = "enrich" /\ entries # <<>>
    /\ should_use_openrouter(Head(entries))
    /\ entry' = Head(entries)
    /\ entries' = Tail(entries)
    /\ calls' = calls + 1
    /\ attempt' = 0 /\ requests' = 0 /\ backoffs' = 0 /\ sleeps' = 0
    /\ response' = Unavailable
    /\ pc' = "call"
    /\ path' = "external"
    /\ UNCHANGED <<config, limiter, cat, enriched, payloads, input_len, exc, rankVars, textVars, mainVars>>

\* enrich_news returns; build_push_payloads appends the payload of the category
EnrichReturn ==
    /\ pc = "enrich" /\ entries = <<>>
    /\ payloads' = Append(payloads, NEWS_CATEGORY_META[cat])
    /\ cat' = cat + 1
    /\ pc' = "category"
    \* the locals of the calls that have returned are gone
    /\ entry' = NoneEntry /\ enriched' = <<>> /\ input_len' = 0
    /\ attempt' = 0 /\ response' = Unavailable
    /\ requests' = 0 /\ backoffs' = 0 /\ sleeps' = 0 /\ path' = "none"
    /\ UNCHANGED <<config, limiter, entries, calls, exc, rankVars, textVars, mainVars>>

-----------------------------------------------------------------------------
(* call_openrouter *)

\* no credential: return None before anything else
CallNoKey ==
    /\ pc = "call" /\ ~api_key
    /\ response' = Unavailable
    /\ pc' = "respond"
    /\ UNCHANGED <<config, limiter, cat, entries, entry, enriched, payloads, calls,
                   path, input_len, exc, attempt, requests, backoffs, sleeps, rankVars, textVars, mainVars>>

\* the pacing at the head of the loop body: sleep_time, 0 when no sleep is needed
PaceSleep ==
    LET elapsed == since_last_call
    IN  IF elapsed < OPENROUTER_MIN_INTERVAL THEN OPENROUTER_MIN_INTERVAL - elapsed ELSE 0

\* OPENROUTER_BACKOFF_BASE * (2**attempt) + random.uniform(0, 1)
Backoff(j) == OPENROUTER_BACKOFF_BASE * Pow2(attempt) + j

\* monotonic() - _last_openrouter_call once a post that began t seconds ago is
\* over: the assignment "_last_openrouter_call = monotonic()" follows the post
\* inside the try, so it runs when the post returned a response ("answered")
\* and is skipped when the post raised
SinceLastCallAfterPost(answered, t) ==
    IF answered THEN 0 ELSE Sat(since_last_call + t)

\* the loop entered without the credential check
Request_unchecked(answered) ==
    /\ pc = "call" /\ attempt < OPENROUTER_MAX_RETRIES
    /\ last_written' = (last_written \/ answered)
    /\ requests' = requests + 1

\* every loop iteration, up to the end of the post
Request(answered) ==
    /\ pc = "call" /\ api_key /\ attempt < OPENROUTER_MAX_RETRIES
    /\ last_written' = (last_written \/ answered)
    /\ requests' = requests + 1

\* whether the loop runs another iteration after the one numbered a has failed
HasNextAttempt(a) == a + 1 < OPENROUTER_MAX_RETRIES

\* a failed iteration: sleep(backoff), then the next iteration, or the return
\* of None once range(OPENROUTER_MAX_RETRIES) is exhausted
BackoffAndRetry(d, j, answered) ==
    /\ since_last_call' = Sat(SinceLastCallAfterPost(answered, PaceSleep + d) + Backoff(j))
    /\ since_end' = Sat(Backoff(j))
    /\ sleeps' = sleeps + (IF PaceSleep > 0 THEN 1 ELSE 0) + 1
    /\ backoffs' = backoffs + 1
    /\ attempt' = attempt + 1
    /\ IF HasNextAttempt(attempt)
       THEN pc' = "call" /\ response' = response
       ELSE pc' = "respond" /\ response' = Unavailable
    /\ UNCHANGED <<config, cat, entries, entry, enriched, payloads, calls, path,
                   input_len, exc, rankVars, textVars, mainVars>>

\* an iteration that leaves the loop right after the post
Leave(d) ==
    /\ since_last_call' = SinceLastCallAfterPost(TRUE, PaceSleep + d)
    /\ since_end' = 0
    /\ sleeps' = sleeps + (IF PaceSleep > 0 THEN 1 ELSE 0)
    /\ UNCHANGED <<config, cat, entries, entry, enriched, payloads, calls, path,
                   input_len, attempt, backoffs, rankVars, textVars, mainVars>>

\* the post raises requests.RequestException (timeout, connection error)
PostRequestError ==
    \E d \in PostSeconds, j \in Jitter :
        /\ Request(FALSE)
        /\ BackoffAndRetry(d, j, FALSE)

\* the response has status 429
Post429 ==
    \E d \in PostSeconds, j \in Jitter :
        /\ Request(TRUE)
        /\ BackoffAndRetry(d, j, TRUE)

\* another non-2xx status: raise_for_status raises HTTPError, caught below
PostHttpError ==
    \E d \in PostSeconds, j \in Jitter :
        /\ Request(TRUE)
        /\ BackoffAndRetry(d, j, TRUE)

\* 2xx with choices[0].message.content: return it
PostOk ==
    \E d \in PostSeconds, c \in Contents :
        /\ Request(TRUE)
        /\ Leave(d)
        /\ response' = c
        /\ pc' = "respond"
        /\ exc' = exc

\* 2xx whose JSON lacks choices / message / content: the subscript raises
\* KeyError, IndexError or TypeError, which the except clause does not catch
PostMalformed ==
    \E d \in PostSeconds :
        /\ Request(TRUE)
        /\ Leave(d)
        /\ response' = response
        /\ exc' = "call_openrouter"
        /\ pc' = "crashed"

-----------------------------------------------------------------------------
(* translate_and_summarize, after call_openrouter has returned *)

\* data.get(...) on a list, or re.sub on a number, raises
Raises(r) == r.kind \in {"non_object", "bad_field"}

\* the value of "translation" before the fallback
Translated(r) ==
    IF r.kind = "object" THEN strip_html(trim_whitespace(r.translation)) ELSE <<>>

Summarized(r) ==
    IF r.kind = "object" THEN trim_whitespace(r.summary) ELSE <<>>

\* translation_used left TRUE when the fallback is taken
Enrich_flag_kept(e, r) ==
    LET translation == Translated(r)
        translation_used == translation # <<>>
    IN  [e EXCEPT !.translation = IF translation_used THEN translation
                                  ELSE OrElse(e.description, e.title),
                  !.summary = OrElse(Summarized(r), SUMMARY_PLACEHOLDER),
                  !.kept_original = FALSE]

\* the entry as translate_and_summarize leaves it
Enrich(e, r) ==
    LET translation == Translated(r)
        translation_used == translation # <<>>
    IN  [e EXCEPT !.translation = IF translation_used THEN translation
                                  ELSE OrElse(e.description, e.title),
                  !.summary = OrElse(Summarized(r), SUMMARY_PLACEHOLDER),
                  !.kept_original = ~translation_used]

TranslateFinish ==
    /\ pc = "respond" /\ ~Raises(response)
    /\ enriched' = Append(enriched, Enrich(entry, response))
    /\ pc' = "enrich"
    \* the locals of call_openrouter are gone
    /\ attempt' = 0 /\ requests' = 0 /\ backoffs' = 0 /\ sleeps' = 0
    /\ UNCHANGED <<config, limiter, response, cat, entries, entry, payloads, path,
                   calls, input_len, exc, rankVars, textVars, mainVars>>

TranslateRaises ==
    /\ pc = "respond" /\ Raises(response)
    /\ exc' = "translate_and_summarize"
    /\ pc' = "crashed"
    /\ UNCHANGED <<config, limiter, callLocals, cat, entries, entry, enriched, path,
                   payloads, calls, input_len, rankVars, textVars, mainVars>>

Next ==
    \/ SkipCategory \/ StartCategory \/ FinishNews
    \/ EnrichLocal \/ EnrichExternal \/ EnrichReturn
    \/ CallNoKey \/ PostRequestError \/ Post429 \/ PostHttpError \/ PostOk
    \/ PostMalformed \/ TranslateFinish \/ TranslateRaises

Spec == Init /\ [][Next]_vars

-----------------------------------------------------------------------------
(* fetch_feed_entries *)

\* published_at is None, or an instant after datetime.min
NoStamp == NoTime
\* datetime.min.replace(tzinfo=TZ)
baseline == 0
Stamps == 1..MaxStamp

FeedTitles == {"X", "Y"}
FeedLinks == {"https://a", "https://b"}

\* the (title, link) pairs the feeds deliver: one title under two links, and
\* one link under two titles
FeedStories == { st \in FeedTitles \X FeedLinks : st # <<"Y", "https://b">> }

\* NewsEntry as the fetch loop builds it; source stands for the feed the item
\* came from, and description is not read by the rest of the function
FeedEntry(t, l, p, src) == [title |-> t, link |-> l, published_at |-> p, source |-> src]

\* key=lambda item: item.published_at or baseline
SortKey(item) == IF item.published_at = NoStamp THEN baseline ELSE item.published_at

\* an insertion that puts x before the entries of equal key: equal keys come
\* out in reverse order of arrival
RECURSIVE InsertDesc_unstable(_, _)
InsertDesc_unstable(l, x) ==
    IF l = <<>> THEN <<x>>
    ELSE IF SortKey(Head(l)) > SortKey(x)
         THEN <<Head(l)>> \o InsertDesc_unstable(Tail(l), x)
         ELSE <<x>> \o l

\* the position x takes in a list sorted by descending key in which equal
\* keys keep their order of arrival (sorted is stable, also with reverse=True)
RECURSIVE InsertDesc(_, _)
InsertDesc(l, x) ==
    IF l = <<>> THEN <<x>>
    ELSE IF SortKey(Head(l)) >= SortKey(x)
         THEN <<Head(l)>> \o InsertDesc(Tail(l), x)
         ELSE <<x>> \o l

\* reverse=True forgotten: ascending order
RECURSIVE InsertAsc(_, _)
InsertAsc(l, x) ==
    IF l = <<>> THEN <<x>>
    ELSE IF SortKey(Head(l)) <= SortKey(x)
         THEN <<Head(l)>> \o InsertAsc(Tail(l), x)
         ELSE <<x>> \o l

RECURSIVE SortedAsc(_)
SortedAsc(l) ==
    IF l = <<>> THEN <<>>
    ELSE InsertAsc(SortedAsc(SubSeq(l, 1, Len(l) - 1)), l[Len(l)])

\* sorted(entries, key=..., reverse=True)
RECURSIVE SortedDesc(_)
SortedDesc(l) ==
    IF l = <<>> THEN <<>>
    ELSE InsertDesc(SortedDesc(SubSeq(l, 1, Len(l) - 1)), l[Len(l)])

\* the key put in "seen", with the source taken into it
DedupKey_per_source(e) == <<e.title, e.link, e.source>>

\* key = (entry.title, entry.link)
DedupKey(e) == <<e.title, e.link>>

\* the pipeline stands still while fetch_feed_entries is looked at alone
PipeIdle ==
    /\ OPENROUTER_FORCE = FALSE /\ api_key = FALSE
    /\ since_last_call = 0 /\ last_written = FALSE
    /\ pc = "idle" /\ cat = 1
    /\ entries = <<>> /\ entry = NoneEntry /\ enriched = <<>>
    /\ attempt = 0 /\ response = Unavailable /\ payloads = <<>>
    /\ calls = 0 /\ requests = 0 /\ backoffs = 0 /\ sleeps = 0
    /\ since_end = NoTime /\ path = "none"
    /\ input_len = 0 /\ exc = ""

InitRank ==
    /\ PipeIdle
    /\ TextIdle
    /\ MainIdle
    /\ rpc = "fetch"
    /\ feed_idx = 1
    /\ fetched = [i \in 1..NumFeeds |-> 0]
    /\ failed = {}
    /\ parsed = 0
    /\ raw = <<>> /\ ordered = <<>> /\ seen = {} /\ deduped = <<>>
    /\ max_items \in 0..MaxCap

\* the handler of a failed feed ends the whole loop over the feed URLs
AfterFeedFailure_abort(i) == NumFeeds + 1

\* "continue" in the except branch: the loop goes on with the next feed URL
AfterFeedFailure(i) == i + 1

\* the GET, raise_for_status or feedparser.parse raises: log and continue
FeedFails ==
    /\ rpc = "fetch" /\ feed_idx <= NumFeeds
    /\ fetched' = [fetched EXCEPT ![feed_idx] = @ + 1]
    /\ failed' = failed \cup {feed_idx}
    /\ feed_idx' = AfterFeedFailure(feed_idx)
    /\ UNCHANGED <<pipeVars, textVars, mainVars, rpc, parsed, raw, ordered, seen, deduped, max_items>>

\* the feed is read and parsed; the loop over parsed.entries starts
FeedParsed ==
    /\ rpc = "fetch" /\ feed_idx <= NumFeeds
    /\ fetched' = [fetched EXCEPT ![feed_idx] = @ + 1]
    /\ rpc' = "items"
    /\ UNCHANGED <<pipeVars, textVars, mainVars, failed, feed_idx, parsed, raw, ordered, seen, deduped, max_items>>

\* an item published before the cutoff: continue
ItemTooOld ==
    /\ rpc = "items" /\ parsed < MaxRaw
    /\ \E p \in Stamps : p < Cutoff
    /\ parsed' = parsed + 1
    /\ UNCHANGED <<pipeVars, textVars, mainVars, failed, rpc, feed_idx, fetched, raw, ordered, seen, deduped, max_items>>

\* an item inside the window, or without a timestamp: append
ItemKept ==
    /\ rpc = "items" /\ parsed < MaxRaw
    /\ \E st \in FeedStories, p \in Stamps \cup {NoStamp} :
          /\ ~(p # NoStamp /\ p < Cutoff)
          /\ raw' = Append(raw, FeedEntry(st[1], st[2], p, feed_idx))
    /\ parsed' = parsed + 1
    /\ UNCHANGED <<pipeVars, textVars, mainVars, failed, rpc, feed_idx, fetched, ordered, seen, deduped, max_items>>

\* parsed.entries is exhausted: on to the next feed URL
FeedDone ==
    /\ rpc = "items"
    /\ feed_idx' = feed_idx + 1
    /\ rpc' = "fetch"
    /\ UNCHANGED <<pipeVars, textVars, mainVars, failed, fetched, parsed, raw, ordered, seen, deduped, max_items>>

\* all feeds visited: the second loop starts on the sorted list
SortEntries ==
    /\ rpc = "fetch" /\ feed_idx > NumFeeds
    /\ ordered' = SortedDesc(raw)
    /\ rpc' = "dedup"
    /\ UNCHANGED <<pipeVars, textVars, mainVars, failed, feed_idx, fetched, parsed, raw, seen, deduped, max_items>>

\* "if key in seen: continue"
DedupSkip ==
    /\ rpc = "dedup" /\ ordered # <<>>
    /\ DedupKey(Head(ordered)) \in seen
    /\ ordered' = Tail(ordered)
    /\ UNCHANGED <<pipeVars, textVars, mainVars, failed, rpc, feed_idx, fetched, parsed, raw, seen, deduped, max_items>>

\* whether the loop breaks after an append that made the list n long
CapReached(n) == n >= max_items

\* the key is new: add it, append the entry, and break once the cap is reached
DedupKeep ==
    /\ rpc = "dedup" /\ ordered # <<>>
    /\ DedupKey(Head(ordered)) \notin seen
    /\ seen' = seen \cup {DedupKey(Head(ordered))}
    /\ deduped' = Append(deduped, Head(ordered))
    /\ ordered' = Tail(ordered)
    /\ rpc' = IF CapReached(Len(deduped) + 1) THEN "done" ELSE "dedup"
    /\ UNCHANGED <<pipeVars, textVars, mainVars, failed, feed_idx, fetched, parsed, raw, max_items>>

\* the sorted list is exhausted: return deduped
DedupEnd ==
    /\ rpc = "dedup" /\ ordered = <<>>
    /\ rpc' = "done"
    /\ UNCHANGED <<pipeVars, textVars, mainVars, failed, feed_idx, fetched, parsed, raw, ordered, seen, deduped, max_items>>

NextRank ==
    \/ FeedFails \/ FeedParsed \/ ItemTooOld \/ ItemKept \/ FeedDone
    \/ SortEntries \/ DedupSkip \/ DedupKeep \/ DedupEnd

SpecRank == InitRank /\ [][NextRank]_vars

-----------------------------------------------------------------------------
(* local_summary and the prompt body as pure functions (SpecText) *)

\* the longest text passed in
MaxText == 3
\* the largest max_chars passed to local_summary
MaxChars == 4
\* the largest MAX_PROMPT_CHARS configured
MaxLimit == 3

\* a letter, a sentence terminator and a space
TextAlphabet == {97, 46, SPACE}

RECURSIVE TextsUpTo(_)
TextsUpTo(n) ==
    IF n = 0 THEN {<<>>}
    ELSE LET shorter == TextsUpTo(n - 1)
         IN  shorter \cup { Append(t, c) : t \in shorter, c \in TextAlphabet }

\* no title, an empty title, a title
TextTitles == {None, <<>>, <<84>>}

InitText ==
    /\ PipeIdle
    /\ RankInit
    /\ MainIdle
    /\ arg_text \in TextsUpTo(MaxText)
    /\ arg_title \in TextTitles
    /\ arg_max_chars \in 0..MaxChars
    /\ MAX_PROMPT_CHARS \in (0 - 1)..MaxLimit
    /\ ret_summary = None
    /\ prompt_body = None

\* local_summary(text, title, max_chars) is called and returns
CallLocalSummary ==
    /\ ret_summary = None
    /\ ret_summary' = local_summary(arg_text, arg_title, arg_max_chars)
    /\ UNCHANGED <<pipeVars, rankVars, mainVars, arg_text, arg_title, arg_max_chars,
                   MAX_PROMPT_CHARS, prompt_body>>

\* the first three lines of translate_and_summarize, on entry.description
BuildPromptBody ==
    /\ prompt_body = None
    /\ prompt_body' = PromptBody(arg_text, MAX_PROMPT_CHARS)
    /\ UNCHANGED <<pipeVars, rankVars, mainVars, arg_text, arg_title, arg_max_chars,
                   MAX_PROMPT_CHARS, ret_summary>>

NextText == CallLocalSummary \/ BuildPromptBody

SpecText == InitText /\ [][NextText]_vars

-----------------------------------------------------------------------------
(* main: the delivery loop over the payloads (SpecMain) *)

\* the payloads appended after the news: "天气速递", "系统状态", "今日行程"
GLUE_PAYLOADS == <<"weather", "server", "calendar">>

\* the titles build_push_payloads can return: one per news category that has
\* feeds configured (its key standing for its push_title), in the order of
\* NEWS_CATEGORY_META, and then the three fixed ones
PayloadTitles ==
    { SelectSeq(NEWS_CATEGORY_META, LAMBDA c : c \in configured) \o GLUE_PAYLOADS :
        configured \in SUBSET Range(NEWS_CATEGORY_META) }

\* (title, body) pairs; of the body only "not body.strip()" is read
PayloadLists ==
    UNION { { [i \in 1..Len(ts) |-> [title |-> ts[i], blank |-> b[i]]] :
                b \in [1..Len(ts) -> BOOLEAN] } : ts \in PayloadTitles }

InitMain ==
    /\ PipeIdle
    /\ RankInit
    /\ TextIdle
    /\ SERVERCHAN_KEY \in BOOLEAN
    /\ main_payloads \in PayloadLists
    /\ main_idx = 0
    /\ send_calls = <<>>
    /\ send_failed = {}
    /\ mpc = "deliver"

\* the payload the loop is at
Current == main_payloads[main_idx + 1]
InLoop == mpc = "deliver" /\ main_idx < Len(main_payloads)

\* the handler of a failed delivery ends the loop over the payloads
AfterFailedSend_abort(i, n) == n

\* "continue" in the except branch: the loop goes on with the next payload
AfterFailedSend(i, n) == i + 1

\* "if not body.strip(): ... continue"
SkipBlank ==
    /\ InLoop /\ Current.blank
    /\ main_idx' = main_idx + 1
    /\ UNCHANGED <<pipeVars, rankVars, textVars, SERVERCHAN_KEY, main_payloads,
                   send_calls, send_failed, mpc>>

\* send_serverchan is called and raises; main logs the exception and continues
SendRaises ==
    /\ send_calls' = Append(send_calls, Current.title)
    /\ send_failed' = send_failed \cup {main_idx + 1}
    /\ main_idx' = AfterFailedSend(main_idx, Len(main_payloads))
    /\ UNCHANGED <<pipeVars, rankVars, textVars, SERVERCHAN_KEY, main_payloads, mpc>>

\* no SERVERCHAN_KEY: RuntimeError before any request
SendNoKey ==
    /\ InLoop /\ ~Current.blank
    /\ ~SERVERCHAN_KEY
    /\ SendRaises

\* the post raises requests.RequestException (timeout, connection error)
SendTransportError ==
    /\ InLoop /\ ~Current.blank
    /\ SERVERCHAN_KEY
    /\ SendRaises

\* the endpoint answers with an error status: raise_for_status raises HTTPError
SendHttpError ==
    /\ InLoop /\ ~Current.blank
    /\ SERVERCHAN_KEY
    /\ SendRaises

\* the endpoint answers 2xx with a body that is not JSON: resp.json() raises
\* ValueError while the success line is being logged
SendReplyNotJson ==
    /\ InLoop /\ ~Current.blank
    /\ SERVERCHAN_KEY
    /\ SendRaises

\* the endpoint answers 2xx and the reply is logged
SendOk ==
    /\ InLoop /\ ~Current.blank
    /\ SERVERCHAN_KEY
    /\ send_calls' = Append(send_calls, Current.title)
    /\ main_idx' = main_idx + 1
    /\ UNCHANGED <<pipeVars, rankVars, textVars, SERVERCHAN_KEY, main_payloads,
                   send_failed, mpc>>

\* the payloads are exhausted: main returns
MainDone ==
    /\ mpc = "deliver" /\ main_idx >= Len(main_payloads)
    /\ mpc' = "done"
    /\ UNCHANGED <<pipeVars, rankVars, textVars, SERVERCHAN_KEY, main_payloads,
                   main_idx, send_calls, send_failed>>

NextMain ==
    \/ SkipBlank \/ SendNoKey \/ SendTransportError \/ SendHttpError
    \/ SendReplyNotJson \/ SendOk \/ MainDone

SpecMain == InitMain /\ [][NextMain]_vars

-----------------------------------------------------------------------------
(* Properties of fetch_feed_entries (checked under SpecRank) *)

SameStory(a, b) == a.title = b.title /\ a.link = b.link
Stories(l) == { <<l[i].title, l[i].link>> : i \in 1..Len(l) }
Returned == rpc = "done"

\* C4: the returned list never holds two entries with the same (title,
\* link); as long as the cap is not reached every (title, link) fetched is
\* returned exactly once, so one story from two feeds gives one entry and
\* one title under two links gives two.
C4_NoDuplicateStory ==
    /\ \A i, j \in 1..Len(deduped) : SameStory(deduped[i], deduped[j]) => i = j
    /\ (Returned /\ Len(deduped) < max_items) => Stories(deduped) = Stories(raw)

C4_Witness ==
    /\ Returned /\ Len(raw) = 3 /\ Len(deduped) = 2 /\ max_items = 3
    /\ \E i, j, k \in 1..3 :
          /\ SameStory(raw[i], raw[j]) /\ raw[i].source # raw[j].source
          /\ raw[k].title = raw[i].title /\ raw[k].link # raw[i].link

\* C5: the returned list is in non-increasing order of published_at, and
\* every entry without a timestamp comes after every entry with one.
C5_NewestFirst ==
    \A i, j \in 1..Len(deduped) :
        i < j =>
            /\ deduped[i].published_at = NoStamp => deduped[j].published_at = NoStamp
            /\ (deduped[i].published_at # NoStamp /\ deduped[j].published_at # NoStamp)
                  => deduped[i].published_at >= deduped[j].published_at

\* fetched in the order none, older, newer; returned newer, older, none
C5_Witness ==
    /\ Returned /\ Len(raw) = 3 /\ Len(deduped) = 3
    /\ raw[1].published_at = NoStamp
    /\ raw[2].published_at # NoStamp /\ raw[3].published_at # NoStamp
    /\ raw[2].published_at < raw[3].published_at
    /\ deduped[1] = raw[3] /\ deduped[2] = raw[2] /\ deduped[3] = raw[1]

\* the first entry of each story of a list, in the order of the list
RECURSIVE FirstOfEachStory(_, _)
FirstOfEachStory(l, known) ==
    IF l = <<>> THEN <<>>
    ELSE IF <<Head(l).title, Head(l).link>> \in known
         THEN FirstOfEachStory(Tail(l), known)
         ELSE <<Head(l)>> \o
              FirstOfEachStory(Tail(l), known \cup {<<Head(l).title, Head(l).link>>})

Prefix(l, n) == SubSeq(l, 1, IF n < Len(l) THEN n ELSE Len(l))

\* C6: for every cap max_items >= 0, 0 included, the returned list has at
\* most max_items entries and is the first max_items entries of the full
\* sorted and de-duplicated list.
C6_AtMostMaxItems ==
    Returned =>
        /\ Len(deduped) <= max_items
        /\ deduped = Prefix(FirstOfEachStory(SortedDesc(raw), {}), max_items)

-----------------------------------------------------------------------------
(* Properties of the enrichment pipeline (checked under Spec) *)

\* title and description joined the way should_use_openrouter joins them
CombinedText(e) == e.title \o <<32>> \o e.description
Blank(t) == \A i \in 1..Len(t) : t[i] = 32
HasIdeograph(t) == \E i \in 1..Len(t) : t[i] \in 19968..40959
LatinOnly(t) == ~Blank(t) /\ \A i \in 1..Len(t) : t[i] < 592
LastEnriched == enriched[Len(enriched)]
\* a request is about to be sent
AboutToPost == pc = "call" /\ api_key /\ attempt < OPENROUTER_MAX_RETRIES

\* C1: every request to the endpoint starts at least OPENROUTER_MIN_INTERVAL
\* seconds after the previous request attempt ended, however that attempt
\* ended (2xx, 429, another status, timeout or connection error).
C1_MinIntervalAfterEveryAttempt ==
    (AboutToPost /\ since_end # NoTime)
        => since_end + PaceSleep >= OPENROUTER_MIN_INTERVAL

\* C2 as claimed: with the force override off, an entry of non-empty purely
\* Latin-script text takes the local path, so call_openrouter is not invoked.
C2_LatinTakesLocalPath ==
    (path # "none" /\ ~OPENROUTER_FORCE /\ LatinOnly(CombinedText(entry)))
        => path = "local"

\* C2 as amended: with the force override off, an entry whose text holds a
\* CJK ideograph takes the local path and the count of call_openrouter
\* invocations stays as it was; an entry of non-empty purely Latin-script
\* text takes the external path, which invokes call_openrouter once.
C2_IdeographTakesLocalPath ==
    [][ (pc = "enrich" /\ entries # <<>> /\ ~OPENROUTER_FORCE) =>
          LET t == CombinedText(Head(entries))
          IN  /\ HasIdeograph(t) => (calls' = calls /\ pc' = "enrich" /\ path' = "local")
              /\ LatinOnly(t) => (calls' = calls + 1 /\ pc' = "call")
      ]_vars

C2_Witness ==
    /\ path = "local" /\ ~OPENROUTER_FORCE /\ api_key
    /\ HasIdeograph(CombinedText(entry))
    /\ calls = 0 /\ cat = 2 /\ enriched # <<>>

\* C3: the external path is taken iff the force override is on, or the
\* stripped combined text is empty, or it holds no character of
\* U+4E00..U+9FFF; otherwise the entry gets translation = description or
\* title, summary = local_summary(...), kept_original = TRUE, and no call
\* is in progress.
C3_PathRule ==
    path # "none" =>
        LET t == CombinedText(entry)
            external == OPENROUTER_FORCE \/ Blank(t) \/ ~HasIdeograph(t)
            original == IF entry.description # <<>> THEN entry.description
                        ELSE entry.title
        IN  /\ (path = "external") <=> external
            /\ (path = "local") <=> ~external
            /\ path = "local" =>
                  /\ pc = "enrich" /\ enriched # <<>>
                  /\ LastEnriched.title = entry.title
                  /\ LastEnriched.description = entry.description
                  /\ LastEnriched.translation = original
                  /\ LastEnriched.summary = local_summary(original, entry.title, 200)
                  /\ LastEnriched.kept_original = TRUE
                  /\ response = Unavailable

C3_Witness ==
    /\ path = "local" /\ ~OPENROUTER_FORCE
    /\ entry.title = <<12354>> /\ entry.description = <<40959>>
    /\ LastEnriched.translation = <<40959>>

\* C7: with a credential, call_openrouter makes at most
\* OPENROUTER_MAX_RETRIES requests per prompt and ends by returning the
\* generated text or None; it raises nothing to its caller.
C7_ReturnsTextOrNone ==
    /\ requests <= OPENROUTER_MAX_RETRIES
    /\ exc # "call_openrouter"
    /\ (pc = "respond" /\ api_key) =>
          (response = Unavailable \/ response \in Contents)

\* characters of t that lie outside markup and are no whitespace
InTag(t, i) == \E j \in 1..i : t[j] = 60 /\ \A k \in j..(i - 1) : t[k] # 62
Visible(t) == { i \in 1..Len(t) : t[i] # 32 /\ ~InTag(t, i) }
\* the external path has just completed for "entry" with "response"
JustTranslated == pc = "enrich" /\ path = "external"

\* C8: after the external path, if the client returned None or the response
\* yields no translation text, translation is the original description (the
\* title when the description is empty) and kept_original is TRUE;
\* kept_original is FALSE only when non-empty text of the response was
\* substituted.
C8_FallbackKeepsOriginal ==
    JustTranslated =>
        LET out == LastEnriched
            original == IF entry.description # <<>> THEN entry.description
                        ELSE entry.title
            yields == response.kind = "object" /\ Visible(response.translation) # {}
        IN  /\ ~yields => (out.translation = original /\ out.kept_original = TRUE)
            /\ out.kept_original = FALSE =>
                  /\ yields
                  /\ out.translation # <<>>
                  /\ \A i \in 1..Len(out.translation) :
                        \E k \in 1..Len(response.translation) :
                            response.translation[k] = out.translation[i]
            /\ out.kept_original = TRUE => out.translation = original

\* persistent failure with a credential and a non-empty description
C8_Witness ==
    /\ JustTranslated /\ api_key /\ response = Unavailable
    /\ entry.description = <<98, 32, 99>>
    /\ LastEnriched.translation = <<98, 32, 99>>
    /\ LastEnriched.kept_original = TRUE

\* C9: a failure while enriching one entry is confined to it: nothing
\* propagates out of enrich_news, which returns one enriched entry per input
\* entry, and every category with feeds gets its payload.
C9_FailureConfined ==
    /\ pc # "crashed"
    /\ (pc = "enrich" /\ entries = <<>>) => Len(enriched) = input_len

\* C10: without a credential every call_openrouter invocation returns None
\* at once: no request, no sleep, and the rate-limiter state is left as it
\* was.
C10_NoKeyIsNoOp ==
    [][ ~api_key =>
          /\ requests' = 0 /\ sleeps' = 0 /\ backoffs' = 0
          /\ last_written' = FALSE
          /\ pc' # "crashed"
          /\ pc = "call" =>
                /\ pc' = "respond" /\ response' = Unavailable
                /\ since_last_call' = since_last_call
                /\ since_end' = since_end
      ]_vars

C10_Witness ==
    /\ ~api_key /\ pc = "respond" /\ calls = 2
    /\ response = Unavailable /\ requests = 0 /\ sleeps = 0

\* C16: _last_openrouter_call is set to the current time after every request
\* attempt, answered or failed with a timeout or connection error, and is
\* written nowhere else: so the time since it was set is the time since the
\* latest request attempt ended.
C16_SetAfterEveryAttempt ==
    /\ since_end # NoTime => (last_written /\ since_last_call = since_end)
    /\ last_written => since_end # NoTime

\* C17: every backoff sleep is followed by another request: one prompt incurs
\* at most OPENROUTER_MAX_RETRIES - 1 = 4 backoff sleeps, and the function
\* does not return None out of a backoff sleep.
C17_NoBackoffAfterLastAttempt ==
    /\ backoffs <= OPENROUTER_MAX_RETRIES - 1
    /\ backoffs <= requests
    /\ (pc = "respond" /\ api_key /\ response = Unavailable) => backoffs < requests

\* the positions of raw that hold the story of entry d
Occurrences(d) == { i \in 1..Len(raw) : SameStory(raw[i], d) }

\* the first position of raw that holds the story of d
FirstOccurrence(d) == CHOOSE i \in Occurrences(d) : \A j \in Occurrences(d) : i <= j

\* the first position of raw among those that hold the story of d with the
\* most recent timestamp, a missing timestamp counting as the oldest
NewestOccurrence(d) ==
    CHOOSE i \in Occurrences(d) :
        \A j \in Occurrences(d) :
            \/ SortKey(raw[j]) < SortKey(raw[i])
            \/ SortKey(raw[j]) = SortKey(raw[i]) /\ i <= j

\* C11 as stated: the entry kept for a (title, link) pair is its first
\* occurrence in the concatenated input list, also when a later duplicate is
\* more recent.
C11_FirstInputOccurrenceKept ==
    \A k \in 1..Len(deduped) : deduped[k] = raw[FirstOccurrence(deduped[k])]

\* C11 amended: the entry kept for a (title, link) pair is the occurrence
\* with the most recent published_at (a missing timestamp counting as the
\* oldest), and among occurrences equally recent the first of the concatenated
\* input list; every other occurrence is dropped.
C11_NewestOccurrenceKept ==
    /\ \A k \in 1..Len(deduped) : deduped[k] = raw[NewestOccurrence(deduped[k])]
    /\ \A k, m \in 1..Len(deduped) : SameStory(deduped[k], deduped[m]) => k = m

\* fetch_feed_entries has returned an entry whose story an earlier feed had
\* delivered first, with an older timestamp
C11_Witness ==
    /\ Returned
    /\ \E k \in 1..Len(deduped) :
          LET d == deduped[k] IN
             /\ NewestOccurrence(d) > FirstOccurrence(d)
             /\ d.source # raw[FirstOccurrence(d)].source
             /\ SortKey(d) > SortKey(raw[FirstOccurrence(d)])

\* the feed URLs the loop has requested so far
Visited == { i \in 1..NumFeeds : i < feed_idx \/ (i = feed_idx /\ rpc = "items") }

\* C13: a feed URL that fails is skipped and nothing is raised: the URLs are
\* requested one after the other, each exactly once, all of them before the
\* dedup loop starts, and every in-window item of a feed that succeeded is
\* either still waiting in the sorted list or has its story in the result.
C13_FailedFeedSkipped ==
    /\ \A i \in 1..NumFeeds : fetched[i] = IF i \in Visited THEN 1 ELSE 0
    /\ failed \subseteq Visited
    /\ rpc \in {"dedup", "done"} =>
          /\ \A i \in 1..NumFeeds : fetched[i] = 1
          /\ \A k \in 1..Len(raw) :
                \/ raw[k] \in Range(ordered)
                \/ DedupKey(raw[k]) \in Stories(deduped)
          /\ \A k \in 1..Len(deduped) : deduped[k] \in Range(raw)

\* the first feed URL failed, the second was still requested, and its items
\* are what fetch_feed_entries returns
C13_Witness ==
    /\ Returned
    /\ failed = {1} /\ fetched[NumFeeds] = 1
    /\ Len(raw) >= 2
    /\ deduped # <<>> /\ \A k \in 1..Len(deduped) : deduped[k].source = NumFeeds

-----------------------------------------------------------------------------
(* Properties of local_summary and of the prompt body (checked under SpecText) *)

HasTerminator(t) == \E i \in 1..Len(t) : t[i] \in {12290, 65281, 65311, 33, 63, 46}

\* the text up to and including its first sentence terminator
FirstSentence(t) ==
    LET ends == { i \in 1..Len(t) : t[i] \in {12290, 65281, 65311, 33, 63, 46} }
    IN  SubSeq(t, 1, CHOOSE i \in ends : \A j \in ends : i <= j)

\* a candidate longer than n is cut to n - 1 characters and an ellipsis
Shortened(t, n) ==
    IF Len(t) > n THEN RStrip(Take(t, n - 1)) \o <<8230>> ELSE t

GivenTitle == arg_title # None /\ arg_title # <<>>
Body == Strip(arg_text)
Summarised == ret_summary # None

\* C12: for a non-empty body the title is prepended exactly when a non-empty
\* title is given and the body holds no sentence terminator; with a
\* terminator (also as the last character) the result is the label and the
\* first sentence only; without one and with a title (also when the body is
\* cut to max_chars) the result is the label, the title, a dash and the body.
C12_TitleIffNoTerminator ==
    (Summarised /\ Body # <<>>) =>
        ret_summary =
            IF HasTerminator(Body)
            THEN <<35201, 28857, 65306>> \o Shortened(FirstSentence(Body), arg_max_chars)
            ELSE IF GivenTitle
                 THEN <<35201, 28857, 65306>> \o Strip(arg_title) \o <<8212, 8212>>
                         \o Shortened(Body, arg_max_chars)
                 ELSE <<35201, 28857, 65306>> \o Shortened(Body, arg_max_chars)

PromptBuilt == prompt_body # None
Described == IF arg_text = <<>> THEN <<65288, 26080, 25688, 35201, 65289>> ELSE arg_text

\* C15 as stated: whatever MAX_PROMPT_CHARS is, zero and negative values
\* included, a description longer than it goes into the prompt as its first
\* MAX_PROMPT_CHARS characters (none for a limit below one) and the marker,
\* never in full.
C15_NeverInFull ==
    (PromptBuilt /\ arg_text # <<>> /\ Len(arg_text) > MAX_PROMPT_CHARS) =>
        /\ prompt_body # arg_text
        /\ prompt_body =
              SubSeq(arg_text, 1, IF MAX_PROMPT_CHARS > 0 THEN MAX_PROMPT_CHARS ELSE 0)
                 \o <<8230, 8230>>

\* C15 amended: for a positive MAX_PROMPT_CHARS the text in the prompt (the
\* description, or the placeholder for an empty one) is unchanged when it is
\* at most MAX_PROMPT_CHARS long and otherwise its first MAX_PROMPT_CHARS
\* characters followed by the marker; for zero or a negative value nothing
\* is cut and the text goes into the prompt in full.
C15_CutOnlyForPositiveLimit ==
    PromptBuilt =>
        /\ (MAX_PROMPT_CHARS > 0 /\ Len(Described) > MAX_PROMPT_CHARS) =>
               /\ prompt_body = SubSeq(Described, 1, MAX_PROMPT_CHARS) \o <<8230, 8230>>
               /\ Len(prompt_body) = MAX_PROMPT_CHARS + 2
        /\ (MAX_PROMPT_CHARS > 0 /\ Len(Described) <= MAX_PROMPT_CHARS) =>
               prompt_body = Described
        /\ MAX_PROMPT_CHARS <= 0 => prompt_body = Described

\* a description longer than a positive limit went into the prompt cut
C15_Witness ==
    /\ PromptBuilt
    /\ MAX_PROMPT_CHARS > 0 /\ Len(arg_text) > MAX_PROMPT_CHARS
    /\ prompt_body # arg_text
    /\ Len(prompt_body) = MAX_PROMPT_CHARS + 2

-----------------------------------------------------------------------------
(* Properties of main's delivery loop (checked under SpecMain) *)

\* the titles of the payloads with a non-blank body among the first n
RECURSIVE NonBlankTitles(_)
NonBlankTitles(n) ==
    IF n = 0 THEN <<>>
    ELSE IF main_payloads[n].blank
         THEN NonBlankTitles(n - 1)
         ELSE Append(NonBlankTitles(n - 1), main_payloads[n].title)

\* C14: every payload with a non-blank body gets exactly one send_serverchan
\* call, in payload order, whether or not earlier calls raised (transport
\* error, HTTP error status, missing SERVERCHAN_KEY); a failed delivery never
\* ends the loop: main returns only after the last payload, and without a key
\* every non-blank payload is still attempted.
C14_EveryPayloadAttemptedOnce ==
    /\ main_idx <= Len(main_payloads)
    /\ send_calls = NonBlankTitles(main_idx)
    /\ mpc = "done" => send_calls = NonBlankTitles(Len(main_payloads))
    /\ \A i \in send_failed : i <= main_idx /\ ~main_payloads[i].blank

\* main has returned; the first payload's delivery had failed and the last
\* payload was still sent
C14_Witness ==
    /\ mpc = "done"
    /\ SERVERCHAN_KEY
    /\ 1 \in send_failed
    /\ Len(main_payloads) \notin send_failed
    /\ ~main_payloads[Len(main_payloads)].blank
    /\ send_calls[Len(send_calls)] = "calendar"
    /\ Len(send_calls) >= 3

=============================================================================
